---- MODULE Spec2Model ----
(***************************************************************************)
(* Model of the disassembly pipeline of src/app/riscv-parse-elf.cc:        *)
(* riscv_parse_elf::run, scan_branch_labels, print_disassembly, symlookup  *)
(* and colorize.  The ELF container and the instruction decoder are        *)
(* collaborators whose code is outside the file; they are modelled by      *)
(* their contract (an image of sections, symbols and decoded records).     *)
(***************************************************************************)
EXTENDS Integers, Sequences, FiniteSets, TLC

\* ------------------------------------------------------------------ bounds
\* number of section headers of the container
NSections == 2
\* largest number of 2-byte instruction slots of a section
MaxSlots == 2
\* cap on the decode steps of one walk of a region (stops a walk that the
\* decoder does not advance)
MaxSteps == MaxSlots + 2
\* number of times a caller runs scan_branch_labels() on one container
MaxScans == 2
\* number of records the history window of the printer holds
HistWindow == 1

\* -------------------------------------------------------- decoder records
\* Decoded instruction records: classification, length in bytes, immediate.
\* "sb" is a conditional branch, "uj" an unconditional jump, "other" any
\* other classification; len 0 is a decode that does not advance.
Insts ==
    { [type |-> "other", len |-> 2, imm |-> 0],
      [type |-> "sb",    len |-> 2, imm |-> 4],
      [type |-> "uj",    len |-> 2, imm |-> 2],
      [type |-> "uj",    len |-> 4, imm |-> 0 - 8],
      [type |-> "other", len |-> 0, imm |-> 0] }

\* a section holding data that would decode as a branch
DataImage == [j \in 0 .. 0 |-> [type |-> "sb", len |-> 2, imm |-> 4]]

\* sh_addr and sh_offset of the k-th section header.  The load addresses
\* and the buffer address (buf) are chosen so that no position, offset or
\* target leaves 0 .. 2^64 - 1: the pointer arithmetic of lines 94 and 113
\* does not wrap on these containers.
ShAddr(k) == 8 * k
ShOffset(k) == 2 * MaxSlots * (k - 1)

\* the section headers (with their bytes, as decoded records per slot) the
\* k-th entry of elf.shdrs can be
SectionImages(k) ==
    { [exec |-> FALSE, sh_addr |-> ShAddr(k), sh_offset |-> ShOffset(k),
       sh_size |-> 2, code |-> DataImage] }
    \cup
    UNION { { [exec |-> TRUE, sh_addr |-> ShAddr(k), sh_offset |-> ShOffset(k),
               sh_size |-> 2 * n, code |-> c] : c \in [0 .. n - 1 -> Insts] }
            : n \in 0 .. MaxSlots }

\* one fixed section image: a branch and a jump with the same target
TwoBranches(k) ==
    [exec |-> TRUE, sh_addr |-> ShAddr(k), sh_offset |-> ShOffset(k),
     sh_size |-> 4,
     code |-> [j \in 0 .. 1 |-> IF j = 0
                 THEN [type |-> "sb", len |-> 2, imm |-> 4]
                 ELSE [type |-> "uj", len |-> 2, imm |-> 2]]]

\* symbol tables: entries in symbol-table order
SymTabs ==
    { << >>,
      << [name |-> "_gp", value |-> 32] >>,
      << [name |-> "main", value |-> 12], [name |-> "_start", value |-> 12] >>,
      << [name |-> "main", value |-> 8], [name |-> "_start", value |-> 8],
         [name |-> "_gp", value |-> 32] >> }

\* the symbol table of the containers whose sections vary
MainSymTab ==
    << [name |-> "main", value |-> 8], [name |-> "_start", value |-> 8],
       [name |-> "_gp", value |-> 32] >>

\* the lists of n section headers
RECURSIVE SectionLists(_)
SectionLists(n) ==
    IF n = 0 THEN { << >> }
    ELSE { Append(s, x) : s \in SectionLists(n - 1), x \in SectionImages(n) }

\* containers whose sections vary
PipelineFiles ==
    { [buf |-> 64, e_machine |-> "EM_RISCV", shdrs |-> s, syms |-> MainSymTab] :
        s \in SectionLists(NSections) }

\* containers with fixed sections, of either architecture, whose symbol
\* table varies
DriverFiles ==
    { [buf |-> 64, e_machine |-> m,
       shdrs |-> [k \in 1 .. NSections |-> TwoBranches(k)],
       syms |-> y] :
        m \in {"EM_RISCV", "EM_OTHER"}, y \in SymTabs }

\* command line flags and the terminal probe
AllOptions ==
    [enable_color : BOOLEAN, elf_header : BOOLEAN, section_headers : BOOLEAN,
     program_headers : BOOLEAN, symbol_table : BOOLEAN, disassebly : BOOLEAN,
     isatty : BOOLEAN]

\* parse_commandline exits unless one output is requested
ValidOptions ==
    { o \in AllOptions : o.elf_header \/ o.section_headers \/ o.program_headers
                           \/ o.symbol_table \/ o.disassebly }

DisasmOnly ==
    [enable_color |-> FALSE, elf_header |-> FALSE, section_headers |-> FALSE,
     program_headers |-> FALSE, symbol_table |-> FALSE, disassebly |-> TRUE,
     isatty |-> FALSE]

VARIABLES
    elf,            \* the loaded container
    opts,           \* the option flags and the terminal probe
    branch_labels,  \* std::map<riscv_ptr,std::string>
    phase,          \* position in run()
    i,              \* section index of the running for loop
    pc,             \* decode position of the running walk
    branch_num,     \* counter of scan_branch_labels(start,end,pc_offset)
    steps,          \* decode steps taken by the running walk
    out,            \* what was written to stdout
    saved,          \* the tables of earlier scans, kept by a caller that scans again
    gp_sym,         \* the symbol print_disassembly() found for "_gp", 0 for none
    gp,             \* argument gp of print_disassembly(start, end, pc_offset, gp)
    dec_hist,       \* std::deque<riscv_decode> of the running print walk; each
                    \* record is kept with the position it was decoded at
    scan_trace,     \* the decode steps of the running or last scan, in order:
                    \* section, position, and target and name when one was bound
    print_trace     \* the decode steps of the print pass, in order

vars == << elf, opts, branch_labels, phase, i, pc, branch_num, steps,
          out, saved, gp_sym, gp, dec_hist, scan_trace, print_trace >>

nullptr == "<nullptr>"

\* ---------------------------------------------------------------- colorize
\* a colorizer that tests the flag but not the terminal
colorize_flag_only(type) ==
    IF ~opts.enable_color THEN ""
    ELSE IF type = "header" THEN "ESC[BOLD;FG_WHITE;BG_BLACK"
    ELSE IF type = "title" THEN "ESC[BOLD;FG_WHITE;BG_BLACK"
    ELSE IF type = "legend" THEN "ESC[BOLD;FG_MAGENTA"
    ELSE IF type = "opcode" THEN "ESC[BOLD;FG_CYAN"
    ELSE IF type = "location" THEN "ESC[FG_GREEN"
    ELSE IF type = "address" THEN "ESC[FG_YELLOW"
    ELSE IF type = "symbol" THEN "ESC[UNDERSCORE"
    ELSE IF type = "reset" THEN "ESC[RESET"
    ELSE ""

colorize(type) ==
    IF ~opts.enable_color \/ ~opts.isatty THEN ""
    ELSE IF type = "header" THEN "ESC[BOLD;FG_WHITE;BG_BLACK"
    ELSE IF type = "title" THEN "ESC[BOLD;FG_WHITE;BG_BLACK"
    ELSE IF type = "legend" THEN "ESC[BOLD;FG_MAGENTA"
    ELSE IF type = "opcode" THEN "ESC[BOLD;FG_CYAN"
    ELSE IF type = "location" THEN "ESC[FG_GREEN"
    ELSE IF type = "address" THEN "ESC[FG_YELLOW"
    ELSE IF type = "symbol" THEN "ESC[UNDERSCORE"
    ELSE IF type = "reset" THEN "ESC[RESET"
    ELSE ""

\* ------------------------------------------------------------ symbol table
\* first symbol, in symbol-table order, whose value is addr; 0 when none
elf_sym_by_addr(e, addr) ==
    LET hits == { n \in 1 .. Len(e.syms) : e.syms[n].value = addr }
    IN  IF hits = {} THEN 0
        ELSE CHOOSE n \in hits : \A m \in hits : n <= m

elf_sym_by_name(e, name) ==
    LET hits == { n \in 1 .. Len(e.syms) : e.syms[n].name = name }
    IN  IF hits = {} THEN 0
        ELSE CHOOSE n \in hits : \A m \in hits : n <= m

elf_sym_name(e, sym) == e.syms[sym].name

\* symlookup consulting the Label Table before the symbol table
symlookup_labels_first(addr) ==
    LET sym == elf_sym_by_addr(elf, addr)
    IN  IF addr \in DOMAIN branch_labels THEN branch_labels[addr]
        ELSE IF sym # 0 THEN elf_sym_name(elf, sym)
        ELSE nullptr

symlookup(addr) ==
    LET sym == elf_sym_by_addr(elf, addr)
    IN  IF sym # 0 THEN elf_sym_name(elf, sym)
        ELSE IF addr \in DOMAIN branch_labels THEN branch_labels[addr]
        ELSE nullptr

\* ----------------------------------------------------------------- decoder
\* elf.offset(sh_offset): pointer into the loaded buffer
elf_offset(e, off) == e.buf + off

SectionStart(e, k) == elf_offset(e, e.shdrs[k].sh_offset)
SectionEnd(e, k) == SectionStart(e, k) + e.shdrs[k].sh_size
PcOffset(e, k) == SectionStart(e, k) - e.shdrs[k].sh_addr

\* the record of the bytes outside every section (zero bytes)
Padding == [type |-> "other", len |-> 2, imm |-> 0]

\* the sections whose bytes cover file offset off
SectionsAt(e, off) ==
    { k \in 1 .. Len(e.shdrs) :
        /\ off >= e.shdrs[k].sh_offset
        /\ (off - e.shdrs[k].sh_offset) % 2 = 0
        /\ (off - e.shdrs[k].sh_offset) \div 2 \in DOMAIN e.shdrs[k].code }

\* the record decoded at position p (after riscv_decode_decompress)
riscv_decode_instruction(e, p) ==
    LET off == p - e.buf
    IN  IF SectionsAt(e, off) = {} THEN Padding
        ELSE LET k == CHOOSE j \in SectionsAt(e, off) : TRUE
             IN  e.shdrs[k].code[(off - e.shdrs[k].sh_offset) \div 2]

\* a loop test that also admits the end position
InRegion_inclusive(p, end) == p <= end

\* the loop test of lines 87 and 123
InRegion(p, end) == p < end

\* a classification that misses the unconditional jumps
IsBranchType_sb_only(t) == t = "sb"

\* the cases of the switch of lines 90-92
IsBranchType(t) == t \in {"sb", "uj"}

\* the records riscv_disasm_instruction prints a target for
IsPrintedBranch(t) == t \in {"sb", "uj"}

\* ------------------------------------------------------------ label format
Digit(d) ==
    CASE d = 0 -> "0" [] d = 1 -> "1" [] d = 2 -> "2" [] d = 3 -> "3"
      [] d = 4 -> "4" [] d = 5 -> "5" [] d = 6 -> "6" [] d = 7 -> "7"
      [] d = 8 -> "8" [] d = 9 -> "9"

RECURSIVE Decimal(_)
Decimal(n) == IF n < 10 THEN Digit(n) ELSE Decimal(n \div 10) \o Digit(n % 10)

RECURSIVE ZeroPad(_, _, _)
ZeroPad(s, have, width) ==
    IF have >= width THEN s ELSE ZeroPad("0" \o s, have + 1, width)

RECURSIVE NumDigits(_)
NumDigits(n) == IF n < 10 THEN 1 ELSE 1 + NumDigits(n \div 10)

\* snprintf(branch_label, 32, "LOC_%06lu", n)
BranchLabel(n) == "LOC_" \o ZeroPad(Decimal(n), NumDigits(n), 6)

Init ==
    /\ \/ elf \in PipelineFiles /\ opts = DisasmOnly
       \/ elf \in DriverFiles /\ opts \in ValidOptions
    /\ branch_labels = << >>
    /\ phase = "elf_header"
    /\ i = 0
    /\ pc = 0
    /\ branch_num = 0
    /\ steps = 0
    /\ out = << >>
    /\ saved = << >>
    /\ gp_sym = 0
    /\ gp = 0
    /\ dec_hist = << >>
    /\ scan_trace = << >>
    /\ print_trace = << >>

\* ---------------------------------------------------------- output records
\* print_heading(heading)
Heading(h) ==
    [k |-> "heading", text |-> h, esc |-> << colorize("header"), colorize("reset") >>]

\* what an elf_print_* function writes, given the colorize callback
Body(b) ==
    [k |-> "body", text |-> b, esc |-> << colorize("legend"), colorize("reset") >>]

\* the "Section[i] name" line of print_disassembly()
Title(k) ==
    [k |-> "title", sec |-> k, esc |-> << colorize("title"), colorize("reset") >>]

\* the line riscv_disasm_instruction writes for the record dec decoded at
\* position p: the address, the name of the address, and for a branch or
\* jump its target and the name of the target
DisasmLine(dec, p, pc_offset) ==
    LET addr == p - pc_offset
        target == addr + dec.imm
    IN  [k |-> "inst", addr |-> addr, name |-> symlookup(addr), type |-> dec.type,
         target |-> IF IsPrintedBranch(dec.type) THEN target ELSE 0 - 1,
         tname |-> IF IsPrintedBranch(dec.type) THEN symlookup(target) ELSE nullptr,
         gp |-> gp,
         esc |-> << colorize("address"), colorize("symbol"), colorize("opcode"),
                    colorize("reset") >>]

Newline == [k |-> "newline", esc |-> << >>]

\* ------------------------------------------------------------------- run()
\* lines 206-209
PrintElfHeader ==
    /\ phase = "elf_header"
    /\ phase' = "section_headers"
    /\ out' = IF opts.elf_header
                THEN out \o << Heading("ELF Header"), Body("elf_header_info") >>
                ELSE out
    /\ UNCHANGED << elf, opts, branch_labels, i, pc, branch_num, steps, saved, gp_sym, gp, dec_hist, scan_trace, print_trace >>

\* lines 210-213
PrintSectionHeaders ==
    /\ phase = "section_headers"
    /\ phase' = "program_headers"
    /\ out' = IF opts.section_headers
                THEN out \o << Heading("Section Headers"), Body("section_headers") >>
                ELSE out
    /\ UNCHANGED << elf, opts, branch_labels, i, pc, branch_num, steps, saved, gp_sym, gp, dec_hist, scan_trace, print_trace >>

\* lines 214-217
PrintProgramHeaders ==
    /\ phase = "program_headers"
    /\ phase' = "symbol_table"
    /\ out' = IF opts.program_headers
                THEN out \o << Heading("Program Headers"), Body("program_headers") >>
                ELSE out
    /\ UNCHANGED << elf, opts, branch_labels, i, pc, branch_num, steps, saved, gp_sym, gp, dec_hist, scan_trace, print_trace >>

\* lines 218-221
PrintSymbolTable ==
    /\ phase = "symbol_table"
    /\ phase' = "disassembly"
    /\ out' = IF opts.symbol_table
                THEN out \o << Heading("Symbol Table"), Body("symbol_table") >>
                ELSE out
    /\ UNCHANGED << elf, opts, branch_labels, i, pc, branch_num, steps, saved, gp_sym, gp, dec_hist, scan_trace, print_trace >>

\* a gate that tests the flag but not the architecture
DisassemblyEnabled_any_machine(o, e) == o.disassebly

\* the condition of line 222
DisassemblyEnabled(o, e) == o.disassebly /\ e.e_machine = "EM_RISCV"

\* lines 222-223
DisassemblyGate ==
    /\ phase = "disassembly"
    /\ IF DisassemblyEnabled(opts, elf)
         THEN /\ out' = out \o << Heading("Disassembly") >>
              /\ phase' = "scan_branch_labels"
         ELSE /\ out' = out
              /\ phase' = "newline"
    /\ UNCHANGED << elf, opts, branch_labels, i, pc, branch_num, steps, saved, gp_sym, gp, dec_hist, scan_trace, print_trace >>

\* line 227
Finish ==
    /\ phase = "newline"
    /\ phase' = "done"
    /\ out' = out \o << Newline >>
    /\ UNCHANGED << elf, opts, branch_labels, i, pc, branch_num, steps, saved, gp_sym, gp, dec_hist, scan_trace, print_trace >>

\* ---------------------------------------------------- scan_branch_labels()
\* branch_labels.clear()
Cleared(tbl) == << >>

\* a counter that keeps its value from one walk to the next
FirstBranchNum_static(n) == IF n = 0 THEN 1 ELSE n

\* the value branch_num has when a walk starts (line 81)
FirstBranchNum(n) == 1

\* lines 108-109: clear the table and start the for loop
ScanBegin ==
    /\ phase = "scan_branch_labels"
    /\ branch_labels' = Cleared(branch_labels)
    /\ i' = 1
    /\ phase' = "scan_sections"
    /\ scan_trace' = << >>
    /\ UNCHANGED << elf, opts, pc, branch_num, steps, out, saved, gp_sym, gp, dec_hist, print_trace >>

\* a for loop that leaves for the print pass after the first section
ScanSection_first_only ==
    /\ phase = "scan_sections"
    /\ IF i > 1
         THEN /\ phase' = "print_disassembly"
              /\ UNCHANGED << i, pc, branch_num, steps >>
         ELSE IF elf.shdrs[i].exec
           THEN /\ phase' = "scan_walk"
                /\ pc' = SectionStart(elf, i)
                /\ branch_num' = 1
                /\ steps' = 0
                /\ UNCHANGED i
           ELSE /\ i' = i + 1
                /\ UNCHANGED << phase, pc, branch_num, steps >>
    /\ UNCHANGED << elf, opts, branch_labels, out, saved, gp_sym, gp, dec_hist, scan_trace, print_trace >>

\* lines 109-113 and 81-86: one test of the for loop; for an executable
\* section the call of scan_branch_labels(start, end, pc_offset) begins
ScanSection ==
    /\ phase = "scan_sections"
    /\ IF i > Len(elf.shdrs)
         THEN /\ phase' = "print_disassembly"
              /\ UNCHANGED << i, pc, branch_num, steps >>
         ELSE IF elf.shdrs[i].exec
           THEN /\ phase' = "scan_walk"
                /\ pc' = SectionStart(elf, i)
                /\ branch_num' = FirstBranchNum(branch_num)
                /\ steps' = 0
                /\ UNCHANGED i
           ELSE /\ i' = i + 1
                /\ UNCHANGED << phase, pc, branch_num, steps >>
    /\ UNCHANGED << elf, opts, branch_labels, out, saved, gp_sym, gp, dec_hist, scan_trace, print_trace >>

\* lines 94-96: the table after a branch or jump with target addr is handled
\* while the counter is n
InsertLabel(tbl, addr, n) ==
    [a \in DOMAIN tbl \cup {addr} |-> IF a = addr THEN BranchLabel(n) ELSE tbl[a]]

\* a counter that is not advanced
NextBranchNum_stuck(tbl, addr, n) == n

\* the counter after a branch or jump with target addr is handled
NextBranchNum(tbl, addr, n) == n + 1

\* a target computed from the buffer position, without the load-address offset
TargetAddr_no_offset(p, pc_offset, imm) == p + imm

\* line 94
TargetAddr(p, pc_offset, imm) == p - pc_offset + imm

\* a walk that keeps its position
Advance_stay(p, next_pc) == p

\* lines 102 and 128: pc = next_pc
Advance(p, next_pc) == next_pc

\* lines 88-102: one iteration of the while loop
ScanStep ==
    /\ phase = "scan_walk"
    /\ InRegion(pc, SectionEnd(elf, i))
    /\ steps < MaxSteps
    /\ LET dec == riscv_decode_instruction(elf, pc)
           next_pc == pc + dec.len
           addr == TargetAddr(pc, PcOffset(elf, i), dec.imm)
           tbl == InsertLabel(branch_labels, addr, branch_num)
       IN  /\ IF IsBranchType(dec.type)
                THEN /\ branch_labels' = tbl
                     /\ branch_num' = NextBranchNum(branch_labels, addr, branch_num)
                     /\ scan_trace' = Append(scan_trace,
                            [sec |-> i, pc |-> pc, addr |-> addr, name |-> tbl[addr]])
                ELSE /\ UNCHANGED << branch_labels, branch_num >>
                     /\ scan_trace' = Append(scan_trace,
                            [sec |-> i, pc |-> pc, addr |-> 0 - 1, name |-> nullptr])
           /\ pc' = Advance(pc, next_pc)
    /\ steps' = steps + 1
    /\ UNCHANGED << elf, opts, phase, i, out, saved, gp_sym, gp, dec_hist, print_trace >>

\* line 87 false: the walk returns and the for loop goes on (line 109)
ScanReturn ==
    /\ phase = "scan_walk"
    /\ ~InRegion(pc, SectionEnd(elf, i))
    /\ phase' = "scan_sections"
    /\ i' = i + 1
    /\ UNCHANGED << elf, opts, branch_labels, pc, branch_num, steps, out, saved, gp_sym, gp, dec_hist, scan_trace, print_trace >>

\* ----------------------------------------------------- print_disassembly()
\* a global pointer argument that is always null
GpValue_null(e, sym) == 0

\* line 141: riscv_ptr(gp_sym ? gp_sym->st_value : 0)
GpValue(e, sym) == IF sym # 0 THEN e.syms[sym].value ELSE 0

\* lines 134-135
PrintBegin ==
    /\ phase = "print_disassembly"
    /\ gp_sym' = elf_sym_by_name(elf, "_gp")
    /\ i' = 1
    /\ phase' = "print_sections"
    /\ print_trace' = << >>
    /\ UNCHANGED << elf, opts, branch_labels, pc, branch_num, steps, out, saved, gp, dec_hist, scan_trace >>

\* a history that outlives the walk it was filled by
NewHistory_kept(h) == h

\* line 121: the deque a walk starts with
NewHistory(h) == << >>

\* riscv_disasm_instruction adds the record to the history and drops the
\* oldest record once the window is full
PushHistory(h, r) ==
    LET all == Append(h, r)
    IN  IF Len(all) > HistWindow THEN SubSeq(all, Len(all) - HistWindow + 1, Len(all))
        ELSE all

\* a for loop that prints every section, executable or not
PrintSection_any_section ==
    /\ phase = "print_sections"
    /\ IF i > Len(elf.shdrs)
         THEN /\ phase' = "newline"
              /\ UNCHANGED << i, pc, steps, out, gp, dec_hist >>
         ELSE IF TRUE
           THEN /\ phase' = "print_walk"
                /\ out' = out \o << Title(i) >>
                /\ pc' = SectionStart(elf, i)
                /\ gp' = GpValue(elf, gp_sym)
                /\ dec_hist' = NewHistory(dec_hist)
                /\ steps' = 0
                /\ UNCHANGED i
           ELSE /\ i' = i + 1
                /\ UNCHANGED << phase, pc, steps, out, gp, dec_hist >>
    /\ UNCHANGED << elf, opts, branch_labels, branch_num, saved, gp_sym, scan_trace, print_trace >>

\* lines 135-141 and 120-122
PrintSection ==
    /\ phase = "print_sections"
    /\ IF i > Len(elf.shdrs)
         THEN /\ phase' = "newline"
              /\ UNCHANGED << i, pc, steps, out, gp, dec_hist >>
         ELSE IF elf.shdrs[i].exec
           THEN /\ phase' = "print_walk"
                /\ out' = out \o << Title(i) >>
                /\ pc' = SectionStart(elf, i)
                /\ gp' = GpValue(elf, gp_sym)
                /\ dec_hist' = NewHistory(dec_hist)
                /\ steps' = 0
                /\ UNCHANGED i
           ELSE /\ i' = i + 1
                /\ UNCHANGED << phase, pc, steps, out, gp, dec_hist >>
    /\ UNCHANGED << elf, opts, branch_labels, branch_num, saved, gp_sym, scan_trace, print_trace >>

\* a lookup with operator[], which adds an empty entry for a missing key
MapFind_subscript(tbl, a) ==
    [x \in DOMAIN tbl \cup {a} |-> IF x \in DOMAIN tbl THEN tbl[x] ELSE ""]

\* line 74: the table after branch_labels.find(a)
MapFind(tbl, a) == tbl

\* lines 72-76: the table after symlookup(addr)
symlookup_table(tbl, addr) ==
    IF elf_sym_by_addr(elf, addr) # 0 THEN tbl ELSE MapFind(tbl, addr)

\* the table after the calls of symlookup that riscv_disasm_instruction makes
\* for the record dec decoded at position p
DisasmTable(tbl, dec, p, pc_offset) ==
    LET addr == p - pc_offset
        t1 == symlookup_table(tbl, addr)
    IN  IF IsPrintedBranch(dec.type) THEN symlookup_table(t1, addr + dec.imm) ELSE t1

\* lines 124-128
PrintStep ==
    /\ phase = "print_walk"
    /\ InRegion(pc, SectionEnd(elf, i))
    /\ steps < MaxSteps
    /\ LET dec == riscv_decode_instruction(elf, pc)
           next_pc == pc + dec.len
       IN  /\ out' = Append(out, DisasmLine(dec, pc, PcOffset(elf, i)))
           /\ branch_labels' = DisasmTable(branch_labels, dec, pc, PcOffset(elf, i))
           /\ dec_hist' = PushHistory(dec_hist, [at |-> pc, dec |-> dec])
           /\ pc' = Advance(pc, next_pc)
    /\ steps' = steps + 1
    /\ print_trace' = Append(print_trace, [sec |-> i, pc |-> pc])
    /\ UNCHANGED << elf, opts, phase, i, branch_num, saved, gp_sym, gp, scan_trace >>

\* line 123 false
PrintReturn ==
    /\ phase = "print_walk"
    /\ ~InRegion(pc, SectionEnd(elf, i))
    /\ phase' = "print_sections"
    /\ i' = i + 1
    /\ UNCHANGED << elf, opts, branch_labels, pc, branch_num, steps, out, saved, gp_sym, gp, dec_hist, scan_trace, print_trace >>

Next ==
    \/ PrintElfHeader
    \/ PrintSectionHeaders
    \/ PrintProgramHeaders
    \/ PrintSymbolTable
    \/ DisassemblyGate
    \/ ScanBegin
    \/ ScanSection
    \/ ScanStep
    \/ ScanReturn
    \/ PrintBegin
    \/ PrintSection
    \/ PrintStep
    \/ PrintReturn
    \/ Finish

Spec == Init /\ [][Next]_vars

\* run() is one sequential thread: while a step is possible the next one is
\* taken
FairSpec == Spec /\ WF_vars(Next)

\* a caller that keeps the table and calls scan_branch_labels() again on
\* the same container
Rescan ==
    /\ phase = "print_disassembly"
    /\ Len(saved) < MaxScans - 1
    /\ saved' = Append(saved, branch_labels)
    /\ phase' = "scan_branch_labels"
    /\ UNCHANGED << elf, opts, branch_labels, i, pc, branch_num, steps, out, gp_sym, gp, dec_hist, scan_trace, print_trace >>

NextRescan == Next \/ Rescan

SpecRescan == Init /\ [][NextRescan]_vars

TypeOK ==
    /\ phase \in {"elf_header", "section_headers", "program_headers", "symbol_table",
                  "disassembly", "scan_branch_labels", "scan_sections", "scan_walk",
                  "print_disassembly", "print_sections", "print_walk", "newline", "done"}
    /\ i \in 0 .. NSections + 1
    /\ steps \in 0 .. MaxSteps

\* ------------------------------------------------------------------ claims
\* the addresses the sections, their branch targets and the symbols lie in
AddrRange == 0 .. ShAddr(NSections) + 2 * MaxSlots

\* the names of the symbols whose value is a
SymbolNamesAt(a) == { elf.syms[n].name : n \in { m \in 1 .. Len(elf.syms) : elf.syms[m].value = a } }

\* the instruction lines written so far
InstLines == { out[n] : n \in { m \in 1 .. Len(out) : out[m].k = "inst" } }

\* what the lookup order of symlookup prescribes for address a and name r
ResolvedInOrder(a, r) ==
    IF SymbolNamesAt(a) # {} THEN r \in SymbolNamesAt(a)
    ELSE IF a \in DOMAIN branch_labels THEN r = branch_labels[a]
    ELSE r = nullptr

\* C1: in every state, for every address, symlookup returns the name of a
\* symbol at that address if there is one (also when the Label Table has an
\* entry for the address), else the label of the address if the Label Table
\* has one, else nullptr; the names printed on instruction lines obey the
\* same order.
C1_LookupOrder ==
    /\ \A a \in AddrRange : ResolvedInOrder(a, symlookup(a))
    /\ \A l \in InstLines :
         /\ ResolvedInOrder(l.addr, l.name)
         /\ l.target >= 0 => ResolvedInOrder(l.target, l.tname)

\* C1 witness: a line was printed for an address that has both a symbol and
\* a Label Table entry, and the line carries the symbol's name
C1_Witness ==
    \E l \in InstLines :
        /\ l.addr \in DOMAIN branch_labels
        /\ SymbolNamesAt(l.addr) # {}
        /\ l.name \in SymbolNamesAt(l.addr)
        /\ l.name # branch_labels[l.addr]

\* the positions a walk of section k decodes when it starts at position p
RECURSIVE WalkFrom(_, _, _)
WalkFrom(e, k, p) ==
    IF p >= SectionEnd(e, k) THEN {}
    ELSE LET dec == riscv_decode_instruction(e, p)
         IN  {p} \cup (IF dec.len <= 0 THEN {} ELSE WalkFrom(e, k, p + dec.len))

WalkPositions(e, k) == WalkFrom(e, k, SectionStart(e, k))

ExecSections(e) == { k \in 1 .. Len(e.shdrs) : e.shdrs[k].exec }

\* the target addresses of the conditional branches and unconditional jumps
\* the walks of the sections in ks decode
BranchTargets(e, ks) ==
    UNION { { p - PcOffset(e, k) + riscv_decode_instruction(e, p).imm :
                p \in { q \in WalkPositions(e, k) :
                          riscv_decode_instruction(e, q).type \in {"sb", "uj"} } }
            : k \in ks }

\* C2: once the printer has started (a region is being walked or a line has
\* been written), the Label Table holds the target of every branch and jump
\* of every executable region, and every printed branch or jump carries a
\* name for its target and its target is a key of the Label Table.
C2_PhaseBarrier ==
    /\ (phase = "print_walk" \/ InstLines # {}) =>
           BranchTargets(elf, ExecSections(elf)) \subseteq DOMAIN branch_labels
    /\ \A l \in InstLines :
           l.type \in {"sb", "uj"} =>
               /\ l.target \in DOMAIN branch_labels
               /\ l.tname # nullptr

\* C2 witness: a printed jump has a forward target named by its label, and a
\* line of the first section carries a label that only a branch of a later
\* section produces
C2_Witness ==
    /\ \E l \in InstLines :
         /\ l.type \in {"sb", "uj"}
         /\ l.target > l.addr
         /\ SymbolNamesAt(l.target) = {}
         /\ l.tname = branch_labels[l.target]
    /\ \E l \in InstLines :
         /\ l.addr < ShAddr(2)
         /\ l.addr \notin BranchTargets(elf, {1})
         /\ l.addr \in BranchTargets(elf, ExecSections(elf) \ {1})
         /\ l.name = branch_labels[l.addr]

\* a walk is at a position inside its region
Walking == phase \in {"scan_walk", "print_walk"} /\ pc < SectionEnd(elf, i)

\* the scanner is about to handle a branch or jump
ScanningBranch ==
    /\ phase = "scan_walk"
    /\ pc < SectionEnd(elf, i)
    /\ riscv_decode_instruction(elf, pc).type \in {"sb", "uj"}

\* the target of the instruction at pc
CurrentTarget == pc - PcOffset(elf, i) + riscv_decode_instruction(elf, pc).imm

\* C3: when the scanner handles a branch or jump whose target is already a
\* key of the Label Table, the name bound to that address after the step is
\* the name bound before it.
C3_ExistingEntryUntouched ==
    [][ (ScanningBranch /\ CurrentTarget \in DOMAIN branch_labels)
          => branch_labels'[CurrentTarget] = branch_labels[CurrentTarget] ]_vars

\* C4: a decode that does not advance ends the walk: the step that decodes a
\* record whose next position is not greater than the current one leaves the
\* walk, it is not followed by the walk decoding the same position again.
C4_NonAdvancingStops ==
    [][ (Walking /\ riscv_decode_instruction(elf, pc).len <= 0)
          => ~(phase' \in {"scan_walk", "print_walk"}) ]_vars

\* the scan of scan_branch_labels() has returned
ScanDone ==
    phase \in {"print_disassembly", "print_sections", "print_walk"}
      \/ (phase \in {"newline", "done"} /\ opts.disassebly /\ elf.e_machine = "EM_RISCV")

\* C5: after a scan the keys of the Label Table are exactly the addresses
\* (position - load-address offset) + immediate of the conditional branches
\* and unconditional jumps the walks of the executable sections decode; until
\* then the table holds no other key.
C5_KeysAreTargets ==
    /\ DOMAIN branch_labels \subseteq BranchTargets(elf, ExecSections(elf))
    /\ ScanDone => DOMAIN branch_labels = BranchTargets(elf, ExecSections(elf))

\* C5 witness: after a scan of a container with a section that is not
\* executable and holds a branch, whose target is no key, the table has a
\* key 8 bytes before the start of the executable section whose jump
\* produced it
C5_Witness ==
    /\ ScanDone
    /\ \E k \in 1 .. Len(elf.shdrs) :
         /\ ~elf.shdrs[k].exec
         /\ elf.shdrs[k].code[0].type = "sb"
         /\ elf.shdrs[k].sh_addr + elf.shdrs[k].code[0].imm \notin DOMAIN branch_labels
    /\ \E k \in ExecSections(elf) :
         \E a \in BranchTargets(elf, {k}) :
              a = elf.shdrs[k].sh_addr - 8 /\ a \in DOMAIN branch_labels

\* C6: the counter of a region's scan starts at 1 and is incremented only
\* when a new label is inserted: a branch or jump whose target is already a
\* key leaves the counter as it is, one whose target is new binds the name
\* of the counter and adds one to it.
C6_CounterOnlyOnInsert ==
    [][ /\ (phase = "scan_sections" /\ phase' = "scan_walk") => branch_num' = 1
        /\ ScanningBranch =>
             IF CurrentTarget \in DOMAIN branch_labels
               THEN branch_num' = branch_num
               ELSE /\ branch_num' = branch_num + 1
                    /\ branch_labels'[CurrentTarget] = BranchLabel(branch_num) ]_vars

\* C7: a scan run again over the same sections, starting from the table the
\* earlier scan left, ends with the table the earlier scan ended with: the
\* same keys and the same name for every key.
C7_ScanIdempotent ==
    (ScanDone /\ saved # << >>) => \A n \in 1 .. Len(saved) : saved[n] = branch_labels

\* C7 witness: a second scan has returned with a table of at least two
\* entries, one of them written twice by one walk
C7_Witness ==
    /\ ScanDone
    /\ saved # << >>
    /\ Cardinality(DOMAIN branch_labels) >= 2
    /\ \E a \in DOMAIN branch_labels : branch_labels[a] = "LOC_000002"

\* the spans an output section other than the disassembly consists of
OtherSection(requested, heading, body) ==
    IF requested
      THEN << [k |-> "heading", text |-> heading], [k |-> "body", text |-> body] >>
      ELSE << >>

\* the other requested sections, in the order of run()
OtherSections ==
    OtherSection(opts.elf_header, "ELF Header", "elf_header_info")
      \o OtherSection(opts.section_headers, "Section Headers", "section_headers")
      \o OtherSection(opts.program_headers, "Program Headers", "program_headers")
      \o OtherSection(opts.symbol_table, "Symbol Table", "symbol_table")

\* the kind and text of the first n records written
Written(n) == [m \in 1 .. n |-> [k |-> out[m].k, text |-> out[m].text]]

\* a record of the disassembly section
IsDisassemblyOutput(r) ==
    r.k \in {"title", "inst"} \/ (r.k = "heading" /\ r.text = "Disassembly")

\* C8: with an architecture other than the supported one the run never
\* enters the label scan or the print pass, leaves the Label Table empty,
\* writes no record of the disassembly section, always has a next step until
\* it is done, and ends having written exactly the other requested sections;
\* with the supported architecture the same other sections are written
\* before the disassembly.
C8_ArchitectureGating ==
    /\ elf.e_machine # "EM_RISCV" =>
         /\ phase \notin {"scan_branch_labels", "scan_sections", "scan_walk",
                          "print_disassembly", "print_sections", "print_walk"}
         /\ branch_labels = << >>
         /\ \A n \in 1 .. Len(out) : ~IsDisassemblyOutput(out[n])
         /\ phase # "done" => ENABLED Next
         /\ phase = "done" =>
              /\ Len(out) = Len(OtherSections) + 1
              /\ out[Len(out)].k = "newline"
    /\ phase \notin {"elf_header", "section_headers", "program_headers", "symbol_table"} =>
         /\ Len(out) >= Len(OtherSections)
         /\ Written(Len(OtherSections)) = OtherSections

\* C8 witness: a run that requested the disassembly and the symbol table of
\* a container of another architecture is done
C8_Witness ==
    /\ elf.e_machine # "EM_RISCV"
    /\ opts.disassebly
    /\ opts.symbol_table
    /\ phase = "done"
    /\ Len(out) = 3

\* the tags colorize is called with, and one it does not know
Tags == {"header", "title", "legend", "opcode", "location", "address", "symbol",
         "reset", "other"}

\* the escape sequences written so far
Escapes == UNION { { out[n].esc[m] : m \in 1 .. Len(out[n].esc) } : n \in 1 .. Len(out) }

\* C9: with the color flag off or a stream that is no terminal, colorize
\* returns the empty string for every tag and no escape sequence has been
\* written; a non-empty escape sequence is returned or written only with
\* the flag on and a terminal.
C9_ColorSuppression ==
    /\ (~opts.enable_color \/ ~opts.isatty) =>
         /\ \A t \in Tags : colorize(t) = ""
         /\ Escapes \subseteq {""}
    /\ \A t \in Tags : colorize(t) # "" => (opts.enable_color /\ opts.isatty)
    /\ Escapes \ {""} # {} => (opts.enable_color /\ opts.isatty)

\* C9 witness: a run with the color flag on and a stream that is no terminal
\* has written a heading, a section title and an instruction line
C9_Witness ==
    /\ opts.enable_color
    /\ ~opts.isatty
    /\ \E n \in 1 .. Len(out) : out[n].k = "heading"
    /\ \E n \in 1 .. Len(out) : out[n].k = "title"
    /\ InstLines # {}

\* the table a walk of section k leaves that starts at position p with
\* table tbl and counter n
RECURSIVE ScanWalk(_, _, _, _, _)
ScanWalk(e, k, p, tbl, n) ==
    IF p >= SectionEnd(e, k) THEN tbl
    ELSE LET dec == riscv_decode_instruction(e, p)
             branch == dec.type \in {"sb", "uj"}
         IN  IF dec.len <= 0 THEN tbl
             ELSE ScanWalk(e, k, p + dec.len,
                           IF branch
                             THEN InsertLabel(tbl, p - PcOffset(e, k) + dec.imm, n)
                             ELSE tbl,
                           IF branch THEN n + 1 ELSE n)

\* the table the walks of the sections ks, in that order, leave from tbl
RECURSIVE ScanOver(_, _, _)
ScanOver(e, ks, tbl) ==
    IF ks = << >> THEN tbl
    ELSE ScanOver(e, Tail(ks), ScanWalk(e, Head(ks), SectionStart(e, Head(ks)), tbl, 1))

\* the instruction lines a walk of section k writes from position p
RECURSIVE LinesWalk(_, _, _)
LinesWalk(e, k, p) ==
    IF p >= SectionEnd(e, k) THEN << >>
    ELSE LET dec == riscv_decode_instruction(e, p)
         IN  << DisasmLine(dec, p, PcOffset(e, k)) >>
               \o (IF dec.len <= 0 THEN << >> ELSE LinesWalk(e, k, p + dec.len))

RECURSIVE LinesOver(_, _)
LinesOver(e, ks) ==
    IF ks = << >> THEN << >>
    ELSE LinesWalk(e, Head(ks), SectionStart(e, Head(ks))) \o LinesOver(e, Tail(ks))

\* the executable sections of length greater than 0, in section order
NonEmptyExec(e) ==
    LET Keep(k) == e.shdrs[k].exec /\ e.shdrs[k].sh_size > 0
    IN  SelectSeq([k \in 1 .. Len(e.shdrs) |-> k], Keep)

\* the instruction lines written, in order
InstLineSeq ==
    LET IsInst(r) == r.k = "inst"
    IN  SelectSeq(out, IsInst)

\* a walk of an executable section of length 0 is under way
InEmptyRegion == phase \in {"scan_walk", "print_walk"} /\ elf.shdrs[i].sh_size = 0

\* C10: the walk of an executable region of length 0 takes no decode step
\* and returns at once, in the scanner and in the printer; the table after
\* the scan and the instruction lines after the print pass are those of the
\* executable regions of length greater than 0 alone, in their order.
C10_EmptyRegion ==
    /\ InEmptyRegion =>
         /\ steps = 0
         /\ ~ENABLED ScanStep
         /\ ~ENABLED PrintStep
         /\ ENABLED (ScanReturn \/ PrintReturn)
    /\ ScanDone => branch_labels = ScanOver(elf, NonEmptyExec(elf), << >>)
    /\ (ScanDone /\ phase \in {"newline", "done"}) =>
         InstLineSeq = LinesOver(elf, NonEmptyExec(elf))

\* C10 witness: a run over a container with an executable region of length 0
\* and an executable region holding a branch or jump is done, with a label
\* and an instruction line
C10_Witness ==
    /\ phase = "done"
    /\ \E k \in ExecSections(elf) : elf.shdrs[k].sh_size = 0
    /\ branch_labels # << >>
    /\ InstLines # {}
    /\ Len(InstLineSeq) = Cardinality(UNION { WalkPositions(elf, k) : k \in ExecSections(elf) })

\* the symbols named "_gp"
GpSymbols == { n \in 1 .. Len(elf.syms) : elf.syms[n].name = "_gp" }

\* the value of the "_gp" symbol of the container, 0 when it has none
ContainerGp ==
    IF GpSymbols = {} THEN 0
    ELSE elf.syms[CHOOSE n \in GpSymbols : \A m \in GpSymbols : n <= m].value

\* the titles written, in order
TitleSeq ==
    LET IsTitle(r) == r.k = "title"
    IN  SelectSeq(out, IsTitle)

\* C11: during the walk of a region the global pointer argument is the
\* value of the "_gp" symbol found before the walk, and every instruction
\* line of the region carries that value.  Without such a symbol the value
\* is null and nothing else changes: the run always has a next step until it
\* is done, every executable section gets its title and every instruction
\* its line.
C11_GlobalPointer ==
    /\ phase = "print_walk" => gp = ContainerGp
    /\ \A l \in InstLines : l.gp = ContainerGp
    /\ GpSymbols = {} =>
         /\ \A l \in InstLines : l.gp = 0
         /\ phase # "done" => ENABLED Next
         /\ (ScanDone /\ phase \in {"newline", "done"}) =>
              /\ Len(TitleSeq) = Cardinality(ExecSections(elf))
              /\ Len(InstLineSeq) =
                   Cardinality(UNION { WalkPositions(elf, k) : k \in ExecSections(elf) })

\* C11 witness: the disassembly of a container without a "_gp" symbol is
\* done and its instruction lines are written
C11_Witness ==
    /\ GpSymbols = {}
    /\ phase = "done"
    /\ Len(InstLineSeq) >= 2 * Cardinality(ExecSections(elf))
    /\ ExecSections(elf) # {}

\* C12: when the printer starts the walk of a region the history window is
\* empty, and during the walk it holds at most HistWindow records, each
\* decoded at a position of the current region that the walk has already
\* passed, latest last; never a record of a region printed before.
C12_HistoryPerRegion ==
    phase = "print_walk" =>
        /\ steps = 0 => dec_hist = << >>
        /\ Len(dec_hist) <= HistWindow
        /\ \A n \in 1 .. Len(dec_hist) :
             /\ dec_hist[n].at >= SectionStart(elf, i)
             /\ dec_hist[n].at < pc
             /\ dec_hist[n].at \in WalkPositions(elf, i)
             /\ dec_hist[n].dec = riscv_decode_instruction(elf, dec_hist[n].at)
             /\ n > 1 => dec_hist[n - 1].at < dec_hist[n].at

\* C12 witness: the printer has printed a region and is in the walk of a
\* later one, whose window has dropped a record and holds the latest
C12_Witness ==
    /\ phase = "print_walk"
    /\ \E l \in InstLines : l.addr < elf.shdrs[i].sh_addr
    /\ dec_hist # << >>
    /\ steps > Len(dec_hist)

\* every decode of every walk of an executable section returns a next
\* position greater than the position decoded
AllAdvance ==
    \A k \in ExecSections(elf) :
        \A p \in WalkPositions(elf, k) : riscv_decode_instruction(elf, p).len > 0

\* C13: when every decode step advances, the run ends (run() returns),
\* every walk has taken at most as many decode steps as its region has
\* bytes, and a walk whose position has reached or passed the end of the
\* region takes no further decode step.
C13_RunsToCompletion ==
    /\ AllAdvance => <>(phase = "done")
    /\ [](AllAdvance =>
            (phase \in {"scan_walk", "print_walk"} =>
                /\ steps <= elf.shdrs[i].sh_size
                /\ pc >= SectionEnd(elf, i) => (~ENABLED ScanStep /\ ~ENABLED PrintStep)))

\* C13 witness: a run over two executable sections of two instructions each
\* is done with all of them printed
C13_Witness ==
    /\ AllAdvance
    /\ phase = "done"
    /\ Cardinality(ExecSections(elf)) >= 2
    /\ Len(InstLineSeq) >= 4

\* the steps of the scan that bound a name
Bindings == { n \in 1 .. Len(scan_trace) : scan_trace[n].addr >= 0 }

\* the step of the scan that bound the present name of key a
LastBinding(a) ==
    CHOOSE n \in Bindings :
        /\ scan_trace[n].addr = a
        /\ \A m \in Bindings : scan_trace[m].addr = a => m <= n

\* two different keys carry the same name
NameCollision ==
    \E a, b \in DOMAIN branch_labels : a # b /\ branch_labels[a] = branch_labels[b]

\* C14: every walk of an executable region starts with the counter at 1,
\* whatever the walk before it left; so names are not unique in the table:
\* keys with the same name are those bound by walks of different regions,
\* and the name of a key is the one its last binding gave it.
C14_NamesCollideAcrossRegions ==
    /\ (phase = "scan_walk" /\ steps = 0) => branch_num = 1
    /\ DOMAIN branch_labels = { scan_trace[n].addr : n \in Bindings }
    /\ \A a \in DOMAIN branch_labels :
         branch_labels[a] = scan_trace[LastBinding(a)].name
    /\ \A a, b \in DOMAIN branch_labels :
         (a # b /\ branch_labels[a] = branch_labels[b]) =>
             scan_trace[LastBinding(a)].sec # scan_trace[LastBinding(b)].sec

\* C14 witness: after a scan of two executable regions two different keys
\* are bound to the same name
C14_Witness ==
    /\ ScanDone
    /\ Cardinality({ scan_trace[n].sec : n \in Bindings }) = 2
    /\ NameCollision

\* the steps up to step n at which the walk of the section of step n bound a
\* name
BindingsOfWalk(n) ==
    { m \in Bindings : m <= n /\ scan_trace[m].sec = scan_trace[n].sec }

\* C17: the names one walk produces carry different numbers: the k-th name
\* a walk binds is the one of number k, the counter of a running walk is one
\* more than the number of names it has bound, and no two bindings of one
\* walk give the same name.
C17_NamesUniqueWithinRegion ==
    /\ \A n \in Bindings :
         scan_trace[n].name = BranchLabel(Cardinality(BindingsOfWalk(n)))
    /\ \A m, n \in Bindings :
         (m < n /\ scan_trace[m].sec = scan_trace[n].sec) =>
             scan_trace[m].name # scan_trace[n].name
    /\ phase = "scan_walk" =>
         branch_num = 1 + Cardinality({ m \in Bindings : scan_trace[m].sec = i })

\* C17 witness: one walk has bound names to two different targets
C17_Witness ==
    \E m, n \in Bindings :
        /\ m < n
        /\ scan_trace[m].sec = scan_trace[n].sec
        /\ scan_trace[m].addr # scan_trace[n].addr

\* section and position of the decode steps of the scan
ScanVisits == [n \in 1 .. Len(scan_trace) |-> [sec |-> scan_trace[n].sec, pc |-> scan_trace[n].pc]]

\* the print pass has returned
PrintDone == ScanDone /\ phase \in {"newline", "done"}

\* C15: the decode steps of the print pass are, in order, the decode steps of
\* the scan: while the printer runs its steps are the first steps of the
\* scan, and when it has returned they are all of them.  Both passes decode
\* in executable sections only, from the first byte of the section to its
\* end, each position once, and every step of the scanner has one
\* instruction line.
C15_SameWalks ==
    /\ Len(print_trace) <= Len(scan_trace)
    /\ ScanDone => print_trace = SubSeq(ScanVisits, 1, Len(print_trace))
    /\ PrintDone =>
         /\ print_trace = ScanVisits
         /\ Len(InstLineSeq) = Len(scan_trace)
         /\ \A n \in 1 .. Len(scan_trace) :
              InstLineSeq[n].addr = scan_trace[n].pc - PcOffset(elf, scan_trace[n].sec)
         /\ \A k \in ExecSections(elf) :
              { print_trace[n].pc : n \in { m \in 1 .. Len(print_trace) : print_trace[m].sec = k } }
                = WalkPositions(elf, k)
    /\ ScanDone =>
         /\ \A n \in 1 .. Len(scan_trace) : scan_trace[n].sec \in ExecSections(elf)
         /\ \A m, n \in 1 .. Len(scan_trace) :
              m < n => \/ scan_trace[m].sec < scan_trace[n].sec
                       \/ /\ scan_trace[m].sec = scan_trace[n].sec
                          /\ scan_trace[m].pc < scan_trace[n].pc
    /\ \A n \in 1 .. Len(print_trace) : print_trace[n].sec \in ExecSections(elf)

\* C15 witness: both passes have walked a container with a section that is
\* not executable and an executable section of two instructions
C15_Witness ==
    /\ PrintDone
    /\ \E k \in 1 .. Len(elf.shdrs) : ~elf.shdrs[k].exec
    /\ Len(print_trace) = 2
    /\ print_trace = ScanVisits

\* C16: once the scan has returned no step changes the Label Table: no
\* step of the printer and no lookup adds, removes or renames an entry.
C16_TableReadOnly ==
    [][ ScanDone => branch_labels' = branch_labels ]_vars

\* C16 witness: the print pass has returned, the table has entries, and a
\* line was printed for an address that has neither a symbol nor an entry
C16_Witness ==
    /\ PrintDone
    /\ branch_labels # << >>
    /\ \E l \in InstLines :
         /\ l.name = nullptr
         /\ l.addr \notin DOMAIN branch_labels
    /\ DOMAIN branch_labels = BranchTargets(elf, ExecSections(elf))

====
